---- MODULE Spec2Model ----
(***************************************************************************)
(* Model of src/execute.py: the ConfigManager settings store (a            *)
(* configparser file with '#' comments) and the MatlabRunner engine        *)
(* session manager.                                                        *)
(*                                                                         *)
(* A Python str is a sequence of atoms.  An atom is either one of the      *)
(* characters the parser treats specially (" ", "#", ",") or an opaque     *)
(* run of ordinary characters ("debit", "1979-1-1").  A list of str is a   *)
(* sequence of such sequences.  None is the value NONE.                    *)
(*                                                                         *)
(* The configuration file is modelled by what configparser writes: for     *)
(* every section and key, the text that follows "key = " on the key's      *)
(* line.  Reading parses that text again (inline comments, stripping).     *)
(***************************************************************************)
EXTENDS Integers, Sequences, FiniteSets, TLC

VARIABLES
    config,             \* ConfigManager.config: section -> key -> str
    disk,               \* content of ConfigManager.config_file
    matlab_paths,       \* MatlabRunner.matlab_paths: name -> path
    start_date,         \* MatlabRunner.start_date
    end_date,           \* MatlabRunner.end_date
    objective_function, \* MatlabRunner.objective_function
    engine,             \* MatlabRunner._engine: 0 is None, else the engine's id
    started,            \* number of engines start_matlab() has returned
    live,               \* engines started and not (successfully) quit
    registered,         \* paths added to the session _engine refers to
    existing,           \* directories for which os.path.exists is true
    pc,                 \* position of the running operation ("idle": none)
    op,                 \* the running (or last) public operation
    args,               \* resolved arguments of the running operation
    todo,               \* names of matlab_paths the addpath loop has yet to visit
    pending,            \* value chosen by the try/except body for return
    outcome,            \* what the caller observed of the last call
    hist,               \* per-invocation record of engine events
    last,               \* the most recent call made by the caller
    ncalls,             \* number of calls made so far (bounded)
    CP,                 \* MatlabRunner.CP (0: the manager was not constructed)
    sent,               \* what the running operation passed to the engine
    config2,            \* config of a second ConfigManager on the same file
    read                \* result of the caller's last get_simulation_settings()

vars == <<config, disk, matlab_paths, start_date, end_date, objective_function,
          engine, started, live, registered, existing, pc, op, args, todo,
          pending, outcome, hist, last, ncalls, CP, sent, config2, read>>

storeVars == <<config, disk>>
fieldVars == <<matlab_paths, start_date, end_date, objective_function>>
engineVars == <<engine, started, live, registered>>
opVars == <<pc, op, args, todo, pending, hist>>
moreVars == <<CP, config2, read>>

----------------------------------------------------------------------------
(* Bounds *)

MaxLen == 3         \* longest free-form string written to the store
MaxList == 2        \* longest output_vars list written to the store
MaxCalls == 2       \* number of calls made on one manager
MaxUpdates == 2     \* number of free-form updates made on one store
MaxDigits == 2      \* longest text of a CP or verbose line in a file

----------------------------------------------------------------------------
(* Python values *)

NONE == <<"<None>">>

Atoms == {"a", " ", "#", ","}

RECURSIVE SeqsUpTo(_, _)
SeqsUpTo(S, n) ==
    IF n = 0 THEN {<<>>}
    ELSE LET shorter == SeqsUpTo(S, n - 1)
         IN  shorter \cup {Append(s, x) : s \in shorter, x \in S}

\* truth value of a str, a list or None (`x or y`, `not x`)
Truthy(v) == v # NONE /\ v # <<>>

Or(a, b) == IF Truthy(a) THEN a ELSE b

\* dict[key] = value
Put(f, k, v) == [x \in DOMAIN f \cup {k} |-> IF x = k THEN v ELSE f[x]]

\* dict.get(key, default)
Get(f, k, default) == IF k \in DOMAIN f THEN f[k] ELSE default

EmptyDict == [x \in {} |-> <<>>]

\* str.strip()
RECURSIVE LStrip(_)
LStrip(s) == IF s # <<>> /\ Head(s) = " " THEN LStrip(Tail(s)) ELSE s

RECURSIVE RStrip(_)
RStrip(s) ==
    IF s # <<>> /\ s[Len(s)] = " " THEN RStrip(SubSeq(s, 1, Len(s) - 1)) ELSE s

Strip(s) == RStrip(LStrip(s))

\* ','.join(items)
RECURSIVE Join(_)
Join(items) ==
    IF items = <<>> THEN <<>>
    ELSE IF Len(items) = 1 THEN items[1]
    ELSE items[1] \o <<",">> \o Join(Tail(items))

\* s.split(','): always at least one piece
RECURSIVE Split(_)
Split(s) ==
    IF \A i \in 1..Len(s) : s[i] # ","
    THEN <<s>>
    ELSE LET i == CHOOSE j \in 1..Len(s) :
                      s[j] = "," /\ \A k \in 1..(j - 1) : s[k] # ","
         IN  <<SubSeq(s, 1, i - 1)>> \o Split(SubSeq(s, i + 1, Len(s)))

\* int(s) succeeds on a numeral (surrounding blanks allowed)
Numerals == {"0", "1", "2"}
IsInt(s) == Strip(s) # <<>> /\ \A i \in 1..Len(Strip(s)) : Strip(s)[i] \in Numerals

Digit(c) == CASE c = "0" -> 0 [] c = "1" -> 1 [] c = "2" -> 2

RECURSIVE Decimal(_)
Decimal(s) ==
    IF s = <<>> THEN 0
    ELSE 10 * Decimal(SubSeq(s, 1, Len(s) - 1)) + Digit(s[Len(s)])

IntOf(s) == Decimal(Strip(s))

----------------------------------------------------------------------------
(* configparser: option names, writing and reading of values *)

Sections == {"PATHS", "DATES", "CALIBRATION", "SIMULATION"}

\* ConfigParser.optionxform is str.lower
optionxform(k) == CASE k = "Extra" -> "extra"
                    [] k = "Main" -> "main"
                    [] k = "CP" -> "cp"
                    [] OTHER -> k

\* RawConfigParser._read: an inline comment starts at the first '#' that
\* follows whitespace; in the line "key = text" the first atom of text
\* follows the blank of the delimiter
CommentStarts(text) ==
    {i \in 1..Len(text) : text[i] = "#" /\ (i = 1 \/ text[i - 1] = " ")}

CutInlineComment(text) ==
    IF CommentStarts(text) = {} THEN text
    ELSE LET i == CHOOSE j \in CommentStarts(text) :
                      \A k \in CommentStarts(text) : j <= k
         IN  SubSeq(text, 1, i - 1)

\* the value read back from the text written after "key = "
ParseValue(text) == Strip(CutInlineComment(text))

\* the options of one section as read: names through optionxform (a file
\* does not hold two names that differ in case only), values parsed
ReadSection(lines) ==
    [k \in {optionxform(x) : x \in DOMAIN lines} |->
        ParseValue(lines[CHOOSE x \in DOMAIN lines : optionxform(x) = k])]

\* ConfigManager.load_config on an existing file
load_config(file) == [s \in DOMAIN file |-> ReadSection(file[s])]

\* BasicInterpolation on reading a value: '%%' stands for '%', any other
\* '%' raises InterpolationSyntaxError
RECURSIVE BadPercent(_)
BadPercent(v) ==
    IF v = <<>> THEN FALSE
    ELSE IF Head(v) # "%" THEN BadPercent(Tail(v))
    ELSE IF Len(v) >= 2 /\ v[2] = "%" THEN BadPercent(SubSeq(v, 3, Len(v)))
    ELSE TRUE

RECURSIVE Interpolate(_)
Interpolate(v) ==
    IF v = <<>> THEN <<>>
    ELSE IF Head(v) = "%" /\ Len(v) >= 2 /\ v[2] = "%"
    THEN <<"%">> \o Interpolate(SubSeq(v, 3, Len(v)))
    ELSE <<Head(v)>> \o Interpolate(Tail(v))

\* dict(section), section.items(): every value of the section is read
Items(sect) == [k \in DOMAIN sect |-> Interpolate(sect[k])]

ItemsRaise(cfg, section) ==
    section \in DOMAIN cfg
    /\ \E k \in DOMAIN cfg[section] : BadPercent(cfg[section][k])

\* ConfigManager.save_config: every section, every key, "key = value";
\* the value is written as it is held (it has no line breaks to indent)
WriteValue(v) == v

save_config(cfg) ==
    [s \in DOMAIN cfg |-> [k \in DOMAIN cfg[s] |-> WriteValue(cfg[s][k])]]

\* a settings value of update_section: a str or a list of str
Str(v) == [list |-> FALSE, v |-> v]
List(l) == [list |-> TRUE, v |-> l]

\* lines 94-97: lists are comma-joined, anything else goes through str()
Serialize(x) == IF x.list THEN Join(x.v) ELSE x.v

\* lines 92-97: settings is the dict's items, in order
RECURSIVE SetItems(_, _)
SetItems(sect, items) ==
    IF items = <<>> THEN sect
    ELSE SetItems(Put(sect, optionxform(items[1][1]), Serialize(items[1][2])),
                  Tail(items))

\* the section replaced by the given settings instead of lines 92-97
UpdatedConfig_replacing(cfg, section, items) ==
    Put(cfg, section, SetItems(EmptyDict, items))

\* lines 89-97: the store after update_section(section, settings)
UpdatedConfig(cfg, section, items) ==
    LET base == IF section \in DOMAIN cfg THEN cfg
                ELSE Put(cfg, section, EmptyDict)
    IN  Put(base, section, SetItems(base[section], items))

----------------------------------------------------------------------------
(* ConfigManager getters *)

DefaultStart == <<"1979-1-1">>
DefaultEnd == <<"2000-12-31">>

get_matlab_paths(cfg) ==
    IF "PATHS" \in DOMAIN cfg THEN Items(cfg["PATHS"]) ELSE EmptyDict

get_date_range(cfg) ==
    IF "DATES" \in DOMAIN cfg
    THEN [k \in {"start_date", "end_date"} |->
             IF k = "start_date"
             THEN Get(Items(cfg["DATES"]), "start_date", DefaultStart)
             ELSE Get(Items(cfg["DATES"]), "end_date", DefaultEnd)]
    ELSE EmptyDict

\* lines 51-52 read the two dates only
DatesRaise(cfg) ==
    "DATES" \in DOMAIN cfg
    /\ \E k \in DOMAIN cfg["DATES"] \cap {"start_date", "end_date"} :
           BadPercent(cfg["DATES"][k])

get_calibration_settings(cfg) ==
    IF "CALIBRATION" \in DOMAIN cfg THEN Items(cfg["CALIBRATION"])
    ELSE EmptyDict

\* output_vars becomes a list of stripped pieces; verbose an int, 0 when
\* int() raises ValueError.  The list and the int are kept under their own
\* keys of the result, the other keys hold the stored str.
get_simulation_settings(cfg) ==
    IF "SIMULATION" \in DOMAIN cfg
    THEN LET s == Items(cfg["SIMULATION"])
         IN  [k \in DOMAIN s |->
                 IF k = "output_vars"
                 THEN [i \in 1..Len(Split(s[k])) |-> Strip(Split(s[k])[i])]
                 ELSE IF k = "verbose"
                 THEN (IF IsInt(s[k]) THEN IntOf(s[k]) ELSE 0)
                 ELSE s[k]]
    ELSE EmptyDict

----------------------------------------------------------------------------
(* The world outside: configuration files found at start, directories *)

FullFile ==
    [PATHS |-> [main |-> <<"src">>],
     DATES |-> [start_date |-> <<"1980-1-1">>, end_date |-> <<"1990-12-31">>],
     CALIBRATION |-> [objective_function |-> <<"NSE">>],
     SIMULATION |-> [physiographic_path |-> <<"physio">>,
                     params_file |-> <<"params.json">>,
                     flow_file_path |-> <<"flow.csv">>,
                     output_vars |-> <<"debit", ",", " ", "volume">>,
                     verbose |-> <<"1", " ", "#", "a">>]]

\* no PATHS, an empty DATES section, no physiographic path
SparseFile ==
    [DATES |-> EmptyDict,
     SIMULATION |-> [params_file |-> <<"params.json">>]]

\* no DATES section at all, no parameter file, no flow file
NoDatesFile ==
    [PATHS |-> [main |-> <<"src">>, extra |-> <<"./extra_scripts">>],
     SIMULATION |-> [physiographic_path |-> <<"physio">>]]

InitFiles == {FullFile, SparseFile, NoDatesFile}

Dirs == {<<"src">>, <<"./extra_scripts">>}

\* lines 141-147
DefaultPaths ==
    [main |-> <<"src">>,
     functions |-> <<"src/matlab_functions">>,
     calibration |-> <<"src/calibration">>,
     sensitivity |-> <<"src/sensitivity_analysis">>,
     results |-> <<"results">>]

\* iteration order of matlab_paths.values()
NameOrder ==
    <<"main", "functions", "calibration", "sensitivity", "results",
      "extra", "Extra">>

NameIndex(n) == CHOOSE i \in 1..Len(NameOrder) : NameOrder[i] = n

FirstName(S) == CHOOSE n \in S : \A m \in S : NameIndex(n) <= NameIndex(m)

----------------------------------------------------------------------------
(* MatlabRunner.__init__ on a store freshly loaded from the file *)

InitPaths(cfg) ==
    IF DOMAIN get_matlab_paths(cfg) # {} THEN get_matlab_paths(cfg)
    ELSE DefaultPaths

InitStartDate(cfg) == Get(get_date_range(cfg), "start_date", DefaultStart)

InitEndDate(cfg) == Get(get_date_range(cfg), "end_date", DefaultEnd)

InitObjective(cfg) ==
    Get(get_calibration_settings(cfg), "objective_function", <<"KGE">>)

\* MatlabRunner.__init__ raises: reading a section raises, or int() of
\* line 158 does
ConstructRaises(cfg) ==
    \/ ItemsRaise(cfg, "PATHS")
    \/ DatesRaise(cfg)
    \/ ItemsRaise(cfg, "CALIBRATION")
    \/ ~IsInt(Get(get_calibration_settings(cfg), "CP", <<"1">>))

NoHist == [nStart |-> 0, nQuit |-> 0, nRoutine |-> 0, invalid |-> FALSE,
           stale |-> FALSE, events |-> <<>>]

NoCall == [call |-> "none", section |-> "", items |-> <<>>, active |-> FALSE]

\* None for a list argument and for an int argument
NoneList == <<NONE>>
NoneInt == -1

TruthyList(l) == l # NoneList /\ l # <<>>

\* the arguments as given by the caller (given_*) and as resolved
NoArgs == [given_path |-> NONE, given_params |-> NONE,
           given_vars |-> NoneList, given_verbose |-> NoneInt,
           physiographic_path |-> NONE, params_name |-> NONE,
           flow_file_path |-> NONE, parameter_ranges |-> NONE,
           output_vars |-> NoneList, verbose |-> NoneInt]

\* nothing was passed to the engine yet
NoSent == [called |-> FALSE, dateDebut |-> NONE, dateFin |-> NONE,
           physiographic_path |-> NONE, params_name |-> NONE,
           flow_file_path |-> NONE, parameter_ranges |-> NONE,
           output_vars |-> NoneList, verbose |-> NoneInt,
           prefixName |-> NONE, CP |-> 0]

\* line 158: the settings' keys are lower-cased option names, the key 'CP'
\* is looked up as written
InitCP(cfg) == IntOf(Get(get_calibration_settings(cfg), "CP", <<"1">>))

Init ==
    /\ disk \in InitFiles
    /\ config = load_config(disk)
    /\ matlab_paths = InitPaths(config)
    /\ start_date = InitStartDate(config)
    /\ end_date = InitEndDate(config)
    /\ objective_function = InitObjective(config)
    /\ engine = 0
    /\ started = 0
    /\ live = {}
    /\ registered = {}
    /\ existing \in SUBSET Dirs
    /\ pc = "idle"
    /\ op = "none"
    /\ args = NoArgs
    /\ todo = {}
    /\ pending = "-"
    /\ outcome = "-"
    /\ hist = NoHist
    /\ last = NoCall
    /\ ncalls = 0
    /\ CP = InitCP(config)
    /\ sent = NoSent
    /\ config2 = config
    /\ read = EmptyDict

----------------------------------------------------------------------------
(* The three public operations, lines 208-218, 256-267, 315-329 *)

Sentinel(o) == IF o = "run_calibration_flow" THEN "1" ELSE "None"

Success(o) == IF o = "run_calibration_flow" THEN "0" ELSE "result"

ArgPaths == {NONE, <<"physio2">>}
ArgParams == {NONE, <<"p2.json">>}
ArgFlows == {NONE, <<"flow2.csv">>}
ArgRanges == {NONE, <<"ranges">>}

\* the try block up to the validation: valid -> _initialize_engine,
\* otherwise ValueError is raised and caught by `except Exception`
Enter(o, a, valid) ==
    /\ pc = "idle"
    /\ ncalls < MaxCalls
    /\ ncalls' = ncalls + 1
    /\ op' = o
    /\ args' = a
    /\ hist' = [NoHist EXCEPT !.invalid = ~valid, !.stale = (engine # 0)]
    /\ outcome' = "-"
    /\ todo' = {}
    /\ last' = [call |-> o, section |-> "", items |-> <<>>,
                active |-> engine # 0]
    /\ IF valid
       THEN pc' = "init" /\ pending' = "-"
       ELSE pc' = "finally" /\ pending' = Sentinel(o)
    /\ sent' = NoSent
    /\ UNCHANGED <<moreVars, storeVars, fieldVars, engineVars, existing>>

\* line 217 checking the physiographic path only
run_simulation_path_only(physiographic_path, params_name, output_vars, verbose) ==
    LET sim_settings == get_simulation_settings(config)
        a == [NoArgs EXCEPT
                !.given_path = physiographic_path,
                !.given_params = params_name,
                !.given_vars = output_vars,
                !.given_verbose = verbose,
                !.physiographic_path =
                    Or(physiographic_path,
                       Get(sim_settings, "physiographic_path", NONE)),
                !.params_name =
                    Or(params_name, Get(sim_settings, "params_file", NONE)),
                !.output_vars =
                    IF TruthyList(output_vars) THEN output_vars
                    ELSE Get(sim_settings, "output_vars", <<<<"debit">>>>),
                !.verbose =
                    IF verbose # NoneInt THEN verbose
                    ELSE Get(sim_settings, "verbose", 0)]
    IN  Enter("run_simulation", a,
              Truthy(a.physiographic_path))

run_simulation(physiographic_path, params_name, output_vars, verbose) ==
    LET sim_settings == get_simulation_settings(config)
        a == [NoArgs EXCEPT
                !.given_path = physiographic_path,
                !.given_params = params_name,
                !.given_vars = output_vars,
                !.given_verbose = verbose,
                !.physiographic_path =
                    Or(physiographic_path,
                       Get(sim_settings, "physiographic_path", NONE)),
                !.params_name =
                    Or(params_name, Get(sim_settings, "params_file", NONE)),
                !.output_vars =
                    IF TruthyList(output_vars) THEN output_vars
                    ELSE Get(sim_settings, "output_vars", <<<<"debit">>>>),
                !.verbose =
                    IF verbose # NoneInt THEN verbose
                    ELSE Get(sim_settings, "verbose", 0)]
    IN  Enter("run_simulation", a,
              Truthy(a.physiographic_path) /\ Truthy(a.params_name))

run_calibration_flow(physiographic_path, flow_file_path, params_name) ==
    LET sim_settings == get_simulation_settings(config)
        a == [NoArgs EXCEPT
                !.given_path = physiographic_path,
                !.given_params = params_name,
                !.physiographic_path =
                    Or(physiographic_path,
                       Get(sim_settings, "physiographic_path", NONE)),
                !.flow_file_path =
                    Or(flow_file_path,
                       Get(sim_settings, "flow_file_path", NONE)),
                !.params_name =
                    Or(params_name, Get(sim_settings, "params_file", NONE))]
    IN  Enter("run_calibration_flow", a,
              /\ Truthy(a.physiographic_path)
              /\ Truthy(a.flow_file_path)
              /\ Truthy(a.params_name))

\* run_sensitivity_analysis without lines 327-329
run_sensitivity_unchecked(physiographic_path, params_name, parameter_ranges) ==
    LET sim_settings == get_simulation_settings(config)
        a == [NoArgs EXCEPT
                !.given_path = physiographic_path,
                !.given_params = params_name,
                !.physiographic_path =
                    Or(physiographic_path,
                       Get(sim_settings, "physiographic_path", NONE)),
                !.params_name =
                    Or(params_name, Get(sim_settings, "params_file", NONE)),
                !.parameter_ranges = parameter_ranges]
    IN  Enter("run_sensitivity_analysis", a,
              /\ Truthy(a.physiographic_path)
              /\ Truthy(a.params_name))

run_sensitivity_analysis(physiographic_path, params_name, parameter_ranges) ==
    LET sim_settings == get_simulation_settings(config)
        a == [NoArgs EXCEPT
                !.given_path = physiographic_path,
                !.given_params = params_name,
                !.physiographic_path =
                    Or(physiographic_path,
                       Get(sim_settings, "physiographic_path", NONE)),
                !.params_name =
                    Or(params_name, Get(sim_settings, "params_file", NONE)),
                !.parameter_ranges = parameter_ranges]
    IN  Enter("run_sensitivity_analysis", a,
              /\ Truthy(a.physiographic_path)
              /\ Truthy(a.params_name)
              /\ parameter_ranges # NONE)

----------------------------------------------------------------------------
(* Steps of an operation.  Every call on the engine either returns or      *)
(* raises; a raise inside the try block is caught by `except Exception`,   *)
(* which chooses the failure sentinel and goes on to the finally block.    *)

Event(e) == [hist EXCEPT !.events = Append(@, e)]

\* an except clause that is not followed by the finally block
CaughtWithoutFinally(h) ==
    /\ pending' = Sentinel(op)
    /\ pc' = "idle"
    /\ hist' = h

\* except Exception as e: print(...); return <sentinel>
Caught(h) ==
    /\ pending' = Sentinel(op)
    /\ pc' = "finally"
    /\ hist' = h

\* _initialize_engine, line 165-166: start_matlab() returns
start_matlab_ok ==
    /\ pc = "init"
    /\ engine = 0
    /\ engine' = started + 1
    /\ started' = started + 1
    /\ live' = live \cup {started + 1}
    /\ registered' = {}
    /\ todo' = DOMAIN matlab_paths
    /\ pc' = "addpath"
    /\ hist' = [Event("start") EXCEPT !.nStart = @ + 1]
    /\ UNCHANGED <<moreVars, sent, storeVars, fieldVars, existing, op, args, pending, outcome,
                   last, ncalls>>

\* start_matlab() raises
start_matlab_fail ==
    /\ pc = "init"
    /\ engine = 0
    /\ Caught(Event("start!"))
    /\ UNCHANGED <<moreVars, sent, storeVars, fieldVars, engineVars, existing, op, args, todo,
                   outcome, last, ncalls>>

\* line 165: _engine is not None, nothing is started and no path is added
initialize_skip ==
    /\ pc = "init"
    /\ engine # 0
    /\ pc' = "datenum1"
    /\ UNCHANGED <<moreVars, sent, storeVars, fieldVars, engineVars, existing, op, args, todo,
                   pending, outcome, hist, last, ncalls>>

\* lines 169-171, one turn of the loop: the path exists and addpath returns
addpath_ok ==
    /\ pc = "addpath"
    /\ todo # {}
    /\ LET n == FirstName(todo)
       IN  /\ matlab_paths[n] \in existing
           /\ registered' = registered \cup {matlab_paths[n]}
           /\ todo' = todo \ {n}
    /\ hist' = Event("addpath")
    /\ UNCHANGED <<moreVars, sent, storeVars, fieldVars, engine, started, live, existing, pc,
                   op, args, pending, outcome, last, ncalls>>

\* the path exists and addpath raises
addpath_fail ==
    /\ pc = "addpath"
    /\ todo # {}
    /\ matlab_paths[FirstName(todo)] \in existing
    /\ Caught(Event("addpath!"))
    /\ UNCHANGED <<moreVars, sent, storeVars, fieldVars, engineVars, existing, op, args, todo,
                   outcome, last, ncalls>>

\* line 170: the path does not exist
addpath_skip ==
    /\ pc = "addpath"
    /\ todo # {}
    /\ matlab_paths[FirstName(todo)] \notin existing
    /\ todo' = todo \ {FirstName(todo)}
    /\ UNCHANGED <<moreVars, sent, storeVars, fieldVars, engineVars, existing, pc, op, args,
                   pending, outcome, hist, last, ncalls>>

\* the loop is over
addpath_done ==
    /\ pc = "addpath"
    /\ todo = {}
    /\ pc' = "datenum1"
    /\ UNCHANGED <<moreVars, sent, storeVars, fieldVars, engineVars, existing, op, args, todo,
                   pending, outcome, hist, last, ncalls>>

\* _get_execution_params, lines 187-188: datenum returns
datenum_ok ==
    /\ pc \in {"datenum1", "datenum2"}
    /\ pc' = IF pc = "datenum1" THEN "datenum2"
             ELSE IF op = "run_calibration_flow" THEN "makedirs"
             ELSE "routine"
    /\ hist' = Event("datenum")
    /\ sent' = IF pc = "datenum1" THEN [sent EXCEPT !.dateDebut = start_date]
               ELSE [sent EXCEPT !.dateFin = end_date]
    /\ UNCHANGED <<moreVars, storeVars, fieldVars, engineVars, existing, op, args, todo,
                   pending, outcome, last, ncalls>>

\* datenum raises
datenum_fail ==
    /\ pc \in {"datenum1", "datenum2"}
    /\ Caught(Event("datenum!"))
    /\ UNCHANGED <<moreVars, sent, storeVars, fieldVars, engineVars, existing, op, args, todo,
                   outcome, last, ncalls>>

\* line 273
prefixName_path == <<"results/calibration/CMAES/">> \o objective_function

\* lines 275-276: the directory is there, or os.makedirs creates it
makedirs_ok ==
    /\ pc = "makedirs"
    /\ existing' = existing \cup {prefixName_path}
    /\ pc' = "routine"
    /\ UNCHANGED <<moreVars, sent, storeVars, fieldVars, engineVars, op, args, todo, pending,
                   outcome, hist, last, ncalls>>

\* os.makedirs raises
makedirs_fail ==
    /\ pc = "makedirs"
    /\ prefixName_path \notin existing
    /\ Caught(hist)
    /\ UNCHANGED <<moreVars, sent, storeVars, fieldVars, engineVars, existing, op, args, todo,
                   outcome, last, ncalls>>

\* lines 224-231, 281-290, 335-342: the positional arguments of the routine
\* (execution holds the two date codes converted before)
Passed ==
    [sent EXCEPT
        !.called = TRUE,
        !.physiographic_path = args.physiographic_path,
        !.params_name = args.params_name,
        !.flow_file_path = args.flow_file_path,
        !.parameter_ranges = args.parameter_ranges,
        !.output_vars = args.output_vars,
        !.verbose = args.verbose,
        !.prefixName = IF op = "run_calibration_flow"
                       THEN prefixName_path \o <<"/">> \o objective_function
                       ELSE NONE,
        !.CP = IF op = "run_calibration_flow" THEN CP ELSE 0]

\* lines 224-232, 281-291, 335-343: the external routine returns
routine_ok ==
    /\ pc = "routine"
    /\ pending' = Success(op)
    /\ pc' = "finally"
    /\ hist' = [Event("routine") EXCEPT !.nRoutine = @ + 1]
    /\ sent' = Passed
    /\ UNCHANGED <<moreVars, storeVars, fieldVars, engineVars, existing, op, args, todo,
                   outcome, last, ncalls>>

\* the external routine raises
routine_fail ==
    /\ pc = "routine"
    /\ Caught([Event("routine!") EXCEPT !.nRoutine = @ + 1])
    /\ sent' = Passed
    /\ UNCHANGED <<moreVars, storeVars, fieldVars, engineVars, existing, op, args, todo,
                   outcome, last, ncalls>>

\* finally: _close_engine, line 175: no engine, the pending value is returned
close_none ==
    /\ pc = "finally"
    /\ engine = 0
    /\ outcome' = pending
    /\ pc' = "idle"
    /\ UNCHANGED <<moreVars, sent, storeVars, fieldVars, engineVars, existing, op, args, todo,
                   pending, hist, last, ncalls>>

\* lines 176-177: quit() returns, the handle is dropped
quit_ok ==
    /\ pc = "finally"
    /\ engine # 0
    /\ live' = live \ {engine}
    /\ engine' = 0
    /\ registered' = {}
    /\ outcome' = pending
    /\ pc' = "idle"
    /\ hist' = [Event("quit") EXCEPT !.nQuit = @ + 1]
    /\ UNCHANGED <<moreVars, sent, storeVars, fieldVars, started, existing, op, args, todo,
                   pending, last, ncalls>>

\* line 176: quit() raises inside the finally block: line 177 is not
\* reached and the exception replaces the pending return value
quit_fail ==
    /\ pc = "finally"
    /\ engine # 0
    /\ outcome' = "raised"
    /\ pc' = "idle"
    /\ hist' = [Event("quit!") EXCEPT !.nQuit = @ + 1]
    /\ UNCHANGED <<moreVars, sent, storeVars, fieldVars, engineVars, existing, op, args, todo,
                   pending, last, ncalls>>

----------------------------------------------------------------------------
(* Updates of the store and of the manager's fields *)

\* update_section without line 100
update_section_unsaved(section, items) ==
    /\ pc = "idle"
    /\ config' = UpdatedConfig(config, section, items)
    /\ disk' = disk
    /\ last' = [call |-> "update_section", section |-> section,
                items |-> items, active |-> engine # 0]
    /\ outcome' = "None"
    /\ ncalls' = ncalls + 1
    /\ UNCHANGED <<moreVars, sent, fieldVars, engineVars, existing, opVars>>

\* ConfigManager.update_section, lines 89-100
update_section(section, items) ==
    /\ pc = "idle"
    /\ config' = UpdatedConfig(config, section, items)
    /\ disk' = save_config(config')
    /\ last' = [call |-> "update_section", section |-> section,
                items |-> items, active |-> engine # 0]
    /\ outcome' = "None"
    /\ ncalls' = ncalls + 1
    /\ UNCHANGED <<moreVars, sent, fieldVars, engineVars, existing, opVars>>

\* add_matlab_path without line 365
add_matlab_path_unregistered(name, path) ==
    /\ pc = "idle"
    /\ matlab_paths' = Put(matlab_paths, name, path)
    /\ config' = UpdatedConfig(config, "PATHS", <<<<name, Str(path)>>>>)
    /\ disk' = save_config(config')
    /\ last' = [call |-> "add_matlab_path", section |-> "PATHS",
                items |-> <<<<name, Str(path)>>>>, active |-> engine # 0]
    /\ outcome' = "None"
    /\ ncalls' = ncalls + 1
    /\ UNCHANGED <<moreVars, sent, start_date, end_date, objective_function, engineVars,
                   existing, opVars>>

\* MatlabRunner.add_matlab_path, lines 358-365, returning normally;
\* addpath is called when a session is there and the path exists
add_matlab_path(name, path) ==
    /\ pc = "idle"
    /\ matlab_paths' = Put(matlab_paths, name, path)
    /\ config' = UpdatedConfig(config, "PATHS", <<<<name, Str(path)>>>>)
    /\ disk' = save_config(config')
    /\ registered' = IF engine # 0 /\ path \in existing
                     THEN registered \cup {path} ELSE registered
    /\ last' = [call |-> "add_matlab_path", section |-> "PATHS",
                items |-> <<<<name, Str(path)>>>>, active |-> engine # 0]
    /\ outcome' = "None"
    /\ ncalls' = ncalls + 1
    /\ UNCHANGED <<moreVars, sent, start_date, end_date, objective_function, engine, started,
                   live, existing, opVars>>

\* line 365: addpath raises, after the mapping and the file were updated
add_matlab_path_raises(name, path) ==
    /\ pc = "idle"
    /\ engine # 0
    /\ path \in existing
    /\ matlab_paths' = Put(matlab_paths, name, path)
    /\ config' = UpdatedConfig(config, "PATHS", <<<<name, Str(path)>>>>)
    /\ disk' = save_config(config')
    /\ last' = [call |-> "add_matlab_path", section |-> "PATHS",
                items |-> <<<<name, Str(path)>>>>, active |-> TRUE]
    /\ outcome' = "raised"
    /\ ncalls' = ncalls + 1
    /\ UNCHANGED <<moreVars, sent, start_date, end_date, objective_function, engineVars,
                   existing, opVars>>

\* MatlabRunner.set_date_range, lines 375-382
set_date_range(start, end) ==
    LET items == <<<<"start_date", Str(start)>>, <<"end_date", Str(end)>>>>
    IN  /\ pc = "idle"
        /\ start_date' = start
        /\ end_date' = end
        /\ config' = UpdatedConfig(config, "DATES", items)
        /\ disk' = save_config(config')
        /\ last' = [call |-> "set_date_range", section |-> "DATES",
                    items |-> items, active |-> engine # 0]
        /\ outcome' = "None"
        /\ ncalls' = ncalls + 1
        /\ UNCHANGED <<moreVars, sent, matlab_paths, objective_function, engineVars, existing,
                       opVars>>

\* MatlabRunner.set_objective_function, lines 391-396
set_objective_function(name) ==
    LET items == <<<<"objective_function", Str(name)>>>>
    IN  /\ pc = "idle"
        /\ objective_function' = name
        /\ config' = UpdatedConfig(config, "CALIBRATION", items)
        /\ disk' = save_config(config')
        /\ last' = [call |-> "set_objective_function",
                    section |-> "CALIBRATION", items |-> items,
                    active |-> engine # 0]
        /\ outcome' = "None"
        /\ ncalls' = ncalls + 1
        /\ UNCHANGED <<moreVars, sent, matlab_paths, start_date, end_date, engineVars,
                       existing, opVars>>

----------------------------------------------------------------------------
(* Inputs *)

PathNames == {"extra", "Extra"}
PathArgs == {<<"./extra_scripts">>, <<"./missing">>}
DateArgs == {<<"1990-1-1">>}
ObjectiveArgs == {<<"RMSE">>}

\* direct updates of the store the manager was constructed with
ManagerUpdates ==
    {[section |-> "DATES",
      items |-> <<<<"start_date", Str(<<"1985-1-1">>)>>>>],
     [section |-> "SIMULATION",
      items |-> <<<<"physiographic_path", Str(<<"physio3">>)>>>>]}

\* free-form strings and lists written to a store
StrValues == SeqsUpTo(Atoms, MaxLen)
ListNames == {<<"debit">>, <<"volume">>}
ListValues == SeqsUpTo(ListNames, MaxList)

StoreUpdates ==
    {[section |-> "EXTRA", items |-> <<<<"note", Str(v)>>>>] : v \in StrValues}
    \cup
    {[section |-> "SIMULATION", items |-> <<<<"output_vars", List(l)>>>>] :
        l \in ListValues}

----------------------------------------------------------------------------
(* Specifications *)

SimulationCall ==
    /\ ncalls < MaxCalls
    /\ \E p \in ArgPaths, n \in ArgParams :
           run_simulation(p, n, NoneList, NoneInt)

CalibrationCall ==
    /\ ncalls < MaxCalls
    /\ \E p \in ArgPaths, f \in ArgFlows, n \in ArgParams :
           run_calibration_flow(p, f, n)

SensitivityCall ==
    /\ ncalls < MaxCalls
    /\ \E p \in ArgPaths, n \in ArgParams, r \in ArgRanges :
           run_sensitivity_analysis(p, n, r)

AddPathCall ==
    /\ ncalls < MaxCalls
    /\ \E n \in PathNames, p \in PathArgs : add_matlab_path(n, p)

AddPathRaisesCall ==
    /\ ncalls < MaxCalls
    /\ \E n \in PathNames, p \in PathArgs : add_matlab_path_raises(n, p)

SetDateRangeCall ==
    /\ ncalls < MaxCalls
    /\ \E s \in DateArgs, e \in DateArgs : set_date_range(s, e)

SetObjectiveCall ==
    /\ ncalls < MaxCalls
    /\ \E o \in ObjectiveArgs : set_objective_function(o)

UpdateSectionCall ==
    /\ ncalls < MaxCalls
    /\ \E u \in ManagerUpdates : update_section(u.section, u.items)

Next ==
    \/ SimulationCall
    \/ CalibrationCall
    \/ SensitivityCall
    \/ AddPathCall
    \/ AddPathRaisesCall
    \/ SetDateRangeCall
    \/ SetObjectiveCall
    \/ UpdateSectionCall
    \/ start_matlab_ok
    \/ start_matlab_fail
    \/ initialize_skip
    \/ addpath_ok
    \/ addpath_fail
    \/ addpath_skip
    \/ addpath_done
    \/ datenum_ok
    \/ datenum_fail
    \/ makedirs_ok
    \/ makedirs_fail
    \/ routine_ok
    \/ routine_fail
    \/ close_none
    \/ quit_ok
    \/ quit_fail

Spec == Init /\ [][Next]_vars

\* a store on its own, free-form updates
InitStore ==
    /\ Init
    /\ existing = {}

StoreUpdate ==
    /\ ncalls < MaxUpdates
    /\ \E u \in StoreUpdates : update_section(u.section, u.items)

NextStore == StoreUpdate

SpecStore == InitStore /\ [][NextStore]_vars

\* a manager constructed on a file whose CP and verbose lines hold any text
CoerceAtoms == {"1", "x", "%"}
CoerceValues == SeqsUpTo(CoerceAtoms, MaxDigits) \cup {NONE}

CoerceFile(cp, verbose) ==
    [CALIBRATION |-> IF cp = NONE THEN [objective_function |-> <<"NSE">>]
                     ELSE [objective_function |-> <<"NSE">>, CP |-> cp],
     SIMULATION |-> IF verbose = NONE THEN [params_file |-> <<"params.json">>]
                    ELSE [params_file |-> <<"params.json">>,
                          verbose |-> verbose]]

InitCoerce ==
    /\ disk \in {CoerceFile(c, v) : c \in CoerceValues, v \in CoerceValues}
    /\ config = load_config(disk)
    /\ matlab_paths = EmptyDict
    /\ start_date = NONE
    /\ end_date = NONE
    /\ objective_function = NONE
    /\ engine = 0
    /\ started = 0
    /\ live = {}
    /\ registered = {}
    /\ existing = {}
    /\ pc = "new"
    /\ op = "none"
    /\ args = NoArgs
    /\ todo = {}
    /\ pending = "-"
    /\ outcome = "-"
    /\ hist = NoHist
    /\ last = NoCall
    /\ ncalls = 0
    /\ CP = 0
    /\ sent = NoSent
    /\ config2 = config
    /\ read = EmptyDict

\* MatlabRunner.__init__, lines 135-161, returning
construct ==
    /\ pc = "new"
    /\ ~ConstructRaises(config)
    /\ matlab_paths' = InitPaths(config)
    /\ start_date' = InitStartDate(config)
    /\ end_date' = InitEndDate(config)
    /\ objective_function' = InitObjective(config)
    /\ CP' = InitCP(config)
    /\ pc' = "idle"
    /\ last' = [NoCall EXCEPT !.call = "MatlabRunner"]
    /\ outcome' = "None"
    /\ ncalls' = ncalls + 1
    /\ UNCHANGED <<storeVars, engineVars, existing, op, args, todo, pending,
                   hist, sent, config2, read>>

\* MatlabRunner.__init__ raising
construct_raises ==
    /\ pc = "new"
    /\ ConstructRaises(config)
    /\ pc' = "failed"
    /\ last' = [NoCall EXCEPT !.call = "MatlabRunner"]
    /\ outcome' = "raised"
    /\ ncalls' = ncalls + 1
    /\ UNCHANGED <<storeVars, fieldVars, engineVars, existing, op, args, todo,
                   pending, hist, moreVars, sent>>

\* the caller reads ConfigManager.get_simulation_settings(), lines 65-79
read_settings ==
    /\ pc \in {"new", "idle", "failed"}
    /\ last.call # "get_simulation_settings"
    /\ ~ItemsRaise(config, "SIMULATION")
    /\ read' = get_simulation_settings(config)
    /\ last' = [NoCall EXCEPT !.call = "get_simulation_settings"]
    /\ outcome' = "None"
    /\ ncalls' = ncalls + 1
    /\ UNCHANGED <<storeVars, fieldVars, engineVars, existing, opVars, CP,
                   sent, config2>>

\* line 67 raising
read_settings_raises ==
    /\ pc \in {"new", "idle", "failed"}
    /\ last.call # "get_simulation_settings"
    /\ ItemsRaise(config, "SIMULATION")
    /\ last' = [NoCall EXCEPT !.call = "get_simulation_settings"]
    /\ outcome' = "raised"
    /\ ncalls' = ncalls + 1
    /\ UNCHANGED <<storeVars, fieldVars, engineVars, existing, opVars,
                   moreVars, sent>>

NextCoerce ==
    \/ construct
    \/ construct_raises
    \/ read_settings
    \/ read_settings_raises

SpecCoerce == InitCoerce /\ [][NextCoerce]_vars

\* update_section on the second store, writing only its own keys into the file
update_section_merging(section, items) ==
    /\ pc = "idle"
    /\ config2' = UpdatedConfig(config2, section, items)
    /\ disk' = LET mine == save_config(config2')
               IN  [sec \in DOMAIN disk \cup DOMAIN mine |->
                      IF sec \notin DOMAIN mine THEN disk[sec]
                      ELSE IF sec \notin DOMAIN disk THEN mine[sec]
                      ELSE [k \in DOMAIN disk[sec] \cup DOMAIN mine[sec] |->
                              IF k \in DOMAIN mine[sec] THEN mine[sec][k]
                              ELSE disk[sec][k]]]
    /\ last' = [call |-> "update_section@2", section |-> section,
                items |-> items, active |-> engine # 0]
    /\ outcome' = "None"
    /\ ncalls' = ncalls + 1
    /\ UNCHANGED <<config, fieldVars, engineVars, existing, opVars, CP, sent,
                   read>>

\* ConfigManager.update_section, lines 89-100, on the second store
update_section_2(section, items) ==
    /\ pc = "idle"
    /\ config2' = UpdatedConfig(config2, section, items)
    /\ disk' = save_config(config2')
    /\ last' = [call |-> "update_section@2", section |-> section,
                items |-> items, active |-> engine # 0]
    /\ outcome' = "None"
    /\ ncalls' = ncalls + 1
    /\ UNCHANGED <<config, fieldVars, engineVars, existing, opVars, CP, sent,
                   read>>

\* two stores loaded from the same file, each updating keys of its own
TwoUpdates ==
    {[section |-> sec, items |-> <<<<k, Str(<<v>>)>>>>] :
        sec \in {"EXTRA", "SIMULATION"}, k \in {"note", "memo"},
        v \in {"a", "b"}}

FirstStoreUpdate ==
    /\ ncalls < MaxUpdates
    /\ \E u \in TwoUpdates : update_section(u.section, u.items)

SecondStoreUpdate ==
    /\ ncalls < MaxUpdates
    /\ \E u \in TwoUpdates : update_section_2(u.section, u.items)

NextTwo == FirstStoreUpdate \/ SecondStoreUpdate

SpecTwo == InitStore /\ [][NextTwo]_vars

\* run_simulation called with and without each optional argument
ArgVars == {NoneList, <<>>, <<<<"volume">>>>}
ArgVerbose == {NoneInt, 0, 1}

ArgUpdates ==
    {[section |-> "SIMULATION",
      items |-> <<<<"output_vars", List(<<<<"volume">>, <<"debit">>>>)>>,
                  <<"verbose", Str(<<"2">>)>>>>]}

ArgsCall ==
    /\ ncalls < MaxCalls
    /\ \E p \in ArgPaths, n \in ArgParams, v \in ArgVars, b \in ArgVerbose :
           run_simulation(p, n, v, b)

ArgsUpdate ==
    /\ ncalls < MaxCalls
    /\ \E u \in ArgUpdates : update_section(u.section, u.items)

NextArgs ==
    \/ ArgsCall
    \/ ArgsUpdate
    \/ start_matlab_ok
    \/ start_matlab_fail
    \/ initialize_skip
    \/ addpath_ok
    \/ addpath_fail
    \/ addpath_skip
    \/ addpath_done
    \/ datenum_ok
    \/ datenum_fail
    \/ routine_ok
    \/ routine_fail
    \/ close_none
    \/ quit_ok
    \/ quit_fail

SpecArgs == Init /\ [][NextArgs]_vars

\* updates of one, of two and of no keys, in sections that are there and in
\* sections that are not, one of them with a key in mixed case
MergeUpdates ==
    {[section |-> sec, items |-> <<<<k, Str(v)>>>>] :
        sec \in {"EXTRA", "SIMULATION"}, k \in {"note", "verbose"},
        v \in {<<"0">>, <<"a", " ", "#", "a">>}}
    \cup
    {[section |-> "PATHS",
      items |-> <<<<"Extra", Str(<<"./missing">>)>>,
                  <<"main", Str(<<"src2">>)>>>>],
     [section |-> "DATES", items |-> <<>>],
     [section |-> "CALIBRATION", items |-> <<<<"CP", Str(<<"2">>)>>>>]}

MergeUpdate ==
    /\ ncalls < MaxUpdates
    /\ \E u \in MergeUpdates : update_section(u.section, u.items)

NextMerge == MergeUpdate

SpecMerge == InitStore /\ [][NextMerge]_vars

----------------------------------------------------------------------------
(* Properties of the engine session *)

RunOps == {"run_simulation", "run_calibration_flow", "run_sensitivity_analysis"}

UpdateOps == {"update_section", "add_matlab_path", "set_date_range",
              "set_objective_function"}

\* the most recent call was a public operation and it has ended
OpEnded == pc = "idle" /\ last.call \in RunOps

Happened(e) == \E i \in 1..Len(hist.events) : hist.events[i] = e

EngineFailure ==
    \/ Happened("start!")
    \/ Happened("addpath!")
    \/ Happened("datenum!")
    \/ Happened("routine!")
    \/ Happened("quit!")

\* C1: after any public operation has ended, whatever its outcome (a failing
\* quit included), the handle _engine is None and no started engine is left
\* un-quit.
C1_HandleNullAfterOp == OpEnded => engine = 0 /\ live = {}

\* C2: no failure of the engine (start, addpath, datenum, the routine, quit)
\* reaches the caller: the operation returns its failure sentinel.
C2_FailureNeverRaised ==
    OpEnded /\ EngineFailure => outcome = Sentinel(last.call)

\* C3: run_calibration_flow returns 0 exactly when main_calibration_flow was
\* called and returned, returns 1 for every caught failure, and no session is
\* open when it returns.
C3_CalibrationStatus ==
    OpEnded /\ last.call = "run_calibration_flow" =>
        /\ (outcome = "0") <=> Happened("routine")
        /\ pending = "1" => outcome = "1"
        /\ outcome \in {"0", "1"} => engine = 0

\* the SIMULATION section and the arguments leave the physiographic path or
\* the parameter-file name of the running run_simulation call unresolved
SimUnresolved ==
    LET sim_settings == get_simulation_settings(config)
    IN  /\ last.call = "run_simulation"
        /\ \/ /\ ~Truthy(args.given_path)
              /\ ~Truthy(Get(sim_settings, "physiographic_path", NONE))
           \/ /\ ~Truthy(args.given_params)
              /\ ~Truthy(Get(sim_settings, "params_file", NONE))

\* C4 as claimed: the unresolved run_simulation call raises a validation
\* error to its caller, before any session is started.
C4_ValidationRaised ==
    pc = "idle" /\ SimUnresolved => outcome = "ValueError" /\ hist.nStart = 0

\* C4: an unresolved run_simulation call starts no engine session and never
\* reaches the engine's start, date conversion or routine; its validation
\* error is caught inside the operation, which chooses the None result: the
\* caller gets None (or, with a handle left over from an earlier failed quit,
\* the error of quit), never the validation error.
C4_ValidationCaught ==
    SimUnresolved =>
        /\ hist.nStart = 0
        /\ hist.nRoutine = 0
        /\ ~Happened("start") /\ ~Happened("start!") /\ ~Happened("datenum")
        /\ pending = "None"
        /\ pc \in {"finally", "idle"}
        /\ pc = "idle" => outcome \in {"None", "raised"}
        /\ pc = "idle" /\ ~last.active => outcome = "None"

C4_Witness ==
    /\ pc = "idle"
    /\ SimUnresolved
    /\ outcome = "None"
    /\ hist.nStart = 0

\* C5 as claimed: every invocation of a public operation starts the engine
\* exactly once and quits it exactly once.
C5_ExactlyOneCycle == OpEnded => hist.nStart = 1 /\ hist.nQuit = 1

\* C5: every invocation of a public operation starts the engine at most once
\* and calls quit at most once; an engine started in the invocation has quit
\* called on it exactly once before the invocation ends; an invocation that
\* fails validation starts none.
C5_AtMostOneCycle ==
    /\ last.call \in RunOps =>
          /\ hist.nStart <= 1
          /\ hist.nQuit <= 1
          /\ hist.nQuit = 1 => pc = "idle"
          /\ hist.invalid => hist.nStart = 0
    /\ OpEnded /\ hist.nStart = 1 =>
          /\ hist.nQuit = 1
          /\ Happened("quit") \/ Happened("quit!")

C5_Witness ==
    /\ OpEnded
    /\ hist.nStart = 1
    /\ hist.nQuit = 1
    /\ Happened("routine")
    /\ engine = 0

----------------------------------------------------------------------------
(* Properties of the settings store *)

\* the section -> key -> value mapping a ConfigManager constructed now on
\* the same file would hold
Reloaded == load_config(disk)

\* C6: after update_section, for every section name and accepted settings, a
\* fresh ConfigManager on the same file holds a mapping equal to the
\* in-memory mapping of the store that made the update.
C6_ConfigRoundTrip == last.call = "update_section" => Reloaded = config

\* the list of the last update_section('SIMULATION', {'output_vars': list})
LastList == last.items[1][2].v

OutputVarsWritten ==
    /\ last.call = "update_section"
    /\ last.section = "SIMULATION"
    /\ last.items[1][1] = "output_vars"
    /\ last.items[1][2].list

\* C7: a list of output-variable names of any length written by
\* update_section is the list get_simulation_settings returns after a reload.
C7_ListRoundTrip ==
    OutputVarsWritten =>
        LET settings == get_simulation_settings(Reloaded)
        IN  /\ "output_vars" \in DOMAIN settings
            /\ Len(settings["output_vars"]) = Len(LastList)
            /\ \A i \in 1..Len(LastList) :
                   settings["output_vars"][i] = LastList[i]

\* the name and the path of the last add_matlab_path call
LastName == last.items[1][1]
LastPath == last.items[1][2].v

LowerCased(n) == IF n = "Extra" THEN "extra" ELSE n

C9_DateDefaults ==
    LET dates == get_date_range(config)
        absent(k) == "DATES" \notin DOMAIN config
                     \/ k \notin DOMAIN config["DATES"]
    IN  /\ absent("start_date") =>
               "start_date" \in DOMAIN dates
               /\ dates["start_date"] = <<"1979-1-1">>
        /\ absent("end_date") =>
               "end_date" \in DOMAIN dates
               /\ dates["end_date"] = <<"2000-12-31">>

----------------------------------------------------------------------------
(* Properties of the operations' arguments and of the order of engine calls *)

\* the running (or last) call is run_sensitivity_analysis without ranges
RangesOmitted ==
    /\ last.call = "run_sensitivity_analysis"
    /\ args.parameter_ranges = NONE

\* C11: run_sensitivity_analysis called without parameter_ranges fails its
\* validation whatever the configuration holds: no engine is started and
\* main_sensitivity is never called.
C11_RangesRequired ==
    RangesOmitted =>
        /\ hist.nStart = 0
        /\ hist.nRoutine = 0
        /\ hist.events \in {<<>>, <<"quit">>, <<"quit!">>}
        /\ pending = "None"
        /\ pc \in {"finally", "idle"}

\* path and parameter file are resolved, only the ranges are missing
C11_Witness ==
    /\ RangesOmitted
    /\ pc = "idle"
    /\ Truthy(args.physiographic_path)
    /\ Truthy(args.params_name)
    /\ outcome = "None"
    /\ hist.nStart = 0

\* the text of the file's verbose line, as parsed
VerboseText == config["SIMULATION"]["verbose"]

\* C12: integer coercion of configuration values never raises: constructing
\* a MatlabRunner succeeds for every text of the CP line, with CP a positive
\* integer (1 when the text is no integer or the line is absent), and reading
\* the simulation settings succeeds for every text of the verbose line, with
\* verbose 0 when the text is no integer.
C12_CoercionNeverRaises ==
    /\ last.call = "MatlabRunner" => outcome = "None" /\ CP >= 1
    /\ last.call = "MatlabRunner" /\ outcome = "None"
       /\ ("cp" \notin DOMAIN config["CALIBRATION"]
           \/ ~IsInt(config["CALIBRATION"]["cp"])) => CP = 1
    /\ last.call = "get_simulation_settings" =>
          /\ outcome = "None"
          /\ "verbose" \in DOMAIN config["SIMULATION"] =>
                 /\ "verbose" \in DOMAIN read
                 /\ ~IsInt(VerboseText) => read["verbose"] = 0

\* the store holds a key (of a section) that the other store does not hold
OnlyIn(mine, other, sec, k) ==
    /\ sec \in DOMAIN mine
    /\ k \in DOMAIN mine[sec]
    /\ sec \notin DOMAIN other \/ k \notin DOMAIN other[sec]

InFile(sec, k) == sec \in DOMAIN disk /\ k \in DOMAIN disk[sec]

\* C13: two stores loaded from the same file lose writes: an update
\* overwrites the whole file from the updating store's own mapping, so after
\* it the file holds no key that only the other store holds, whatever that
\* store persisted before.
C13_LostWrites ==
    /\ last.call = "update_section@2" =>
           \A sec \in DOMAIN config : \A k \in DOMAIN config[sec] :
               OnlyIn(config, config2, sec, k) => ~InFile(sec, k)
    /\ last.call = "update_section" =>
           \A sec \in DOMAIN config2 : \A k \in DOMAIN config2[sec] :
               OnlyIn(config2, config, sec, k) => ~InFile(sec, k)

\* the first store persisted note, then the second store persisted memo (a
\* different key) and the file no longer holds note
C13_Witness ==
    /\ last.call = "update_section@2"
    /\ ncalls = 2
    /\ last.items[1][1] = "memo"
    /\ OnlyIn(config, config2, "EXTRA", "note")
    /\ ~InFile("EXTRA", "note")
    /\ InFile(last.section, "memo")

\* the place of an engine event in the order start, registrations, date
\* conversions, routine, quit (a call that raised stands where it was made)
Rank(e) ==
    CASE e \in {"start", "start!"} -> 1
      [] e \in {"addpath", "addpath!"} -> 2
      [] e \in {"datenum", "datenum!"} -> 3
      [] e \in {"routine", "routine!"} -> 4
      [] e \in {"quit", "quit!"} -> 5

\* the configured paths that exist on disk
ExistingConfigured ==
    {matlab_paths[n] : n \in DOMAIN matlab_paths} \cap existing

\* C14: within one operation the engine events occur in the order start of
\* the session, registrations, the two date conversions, at most one call of
\* the routine, quit; the routine is called only on a session on which all
\* existing configured paths are registered, and nothing is called on a
\* session after quit was called on it.
C14_EventOrder ==
    LET ev == hist.events
    IN  /\ ev # <<>> => Rank(ev[1]) = 1
        /\ \A i \in 1..Len(ev) : \A j \in 1..Len(ev) :
               i < j => /\ Rank(ev[i]) <= Rank(ev[j])
                        /\ Rank(ev[i]) = Rank(ev[j]) => Rank(ev[i]) \in {2, 3}
        /\ Cardinality({i \in 1..Len(ev) : Rank(ev[i]) = 3}) <= 2
        /\ hist.nRoutine <= 1
        /\ pc = "finally" /\ sent.called =>
               /\ ExistingConfigured \subseteq registered
               /\ Cardinality({i \in 1..Len(ev) : ev[i] = "datenum"}) = 2
        /\ hist.stale => ev = <<>>

\* the SIMULATION settings as stored when the routine is called (the store
\* does not change while an operation runs)
Stored == get_simulation_settings(config)

\* C15: in run_simulation every explicitly supplied argument is the value
\* forwarded to the routine, and every omitted one is replaced by the value
\* stored in SIMULATION at the time of the call (output_vars falling back to
\* ['debit'], verbose to 0); an explicit verbose of 0 and an explicit
\* output_vars list are never overridden.
C15_ArgumentsForwarded ==
    last.call = "run_simulation" /\ sent.called =>
        /\ sent.physiographic_path =
               IF args.given_path # NONE THEN args.given_path
               ELSE Get(Stored, "physiographic_path", NONE)
        /\ sent.params_name =
               IF args.given_params # NONE THEN args.given_params
               ELSE Get(Stored, "params_file", NONE)
        /\ sent.output_vars =
               IF args.given_vars # NoneList THEN args.given_vars
               ELSE Get(Stored, "output_vars", <<<<"debit">>>>)
        /\ sent.verbose =
               IF args.given_verbose # NoneInt THEN args.given_verbose
               ELSE Get(Stored, "verbose", 0)

\* the operation is past _initialize_engine and uses the session
UsesEngine == pc \in {"datenum1", "datenum2", "makedirs", "routine"}

\* C16: a failed operation calls its routine at most once and affects that
\* operation only: the operation after it finds no session left by the
\* failed one and starts a fresh session before it uses the engine.
C16_FailureIsolated ==
    /\ hist.nRoutine <= 1
    /\ last.call \in RunOps => ~hist.stale
    /\ UsesEngine => hist.nStart = 1 /\ engine = started

\* C18: the engines started and not quit are 0 or 1: no second engine is
\* started while one is live, an operation that reaches the engine uses a
\* session started within that operation, and between operations no engine
\* is live.
C18_OneLiveEngine ==
    /\ Cardinality(live) <= 1
    /\ engine # 0 => live = {engine}
    /\ UsesEngine => Happened("start")
    /\ pc = "idle" => live = {}

\* the keys of a section of a store, none when the section is not there
KeysOf(cfg, sec) == IF sec \in DOMAIN cfg THEN DOMAIN cfg[sec] ELSE {}

\* between two stores: section sec is there afterwards, it has the keys it
\* had and the given ones, and every key not given, of that section or of
\* another one, has the value it had
MergedInto(before, after, sec, given) ==
    /\ DOMAIN after = DOMAIN before \cup {sec}
    /\ KeysOf(after, sec) = KeysOf(before, sec) \cup given
    /\ \A k \in KeysOf(before, sec) \ given : after[sec][k] = before[sec][k]
    /\ \A s \in DOMAIN before \ {sec} :
           /\ DOMAIN after[s] = DOMAIN before[s]
           /\ \A k \in DOMAIN before[s] : after[s][k] = before[s][k]

FreshPaths == InitPaths(load_config(disk))

PathSet(m) == {m[n] : n \in DOMAIN m}

\* C19: after any sequence of add_matlab_path calls the manager's path
\* mapping equals the PATHS section of the file, and a manager newly
\* constructed from the file registers the same set of paths, also when the
\* mapping came from the built-in default set.
C19_PathsEqualFile ==
    last.call = "add_matlab_path" =>
        /\ "PATHS" \in DOMAIN disk
        /\ DOMAIN matlab_paths = DOMAIN load_config(disk)["PATHS"]
        /\ \A n \in DOMAIN matlab_paths :
               matlab_paths[n] = load_config(disk)["PATHS"][n]
        /\ PathSet(FreshPaths) = PathSet(matlab_paths)

\* C20: the dates converted in an operation, and the objective-function
\* name in the calibration output prefix, are the values the store holds in
\* DATES and CALIBRATION when the operation runs (or the defaults), after any
\* set_date_range, set_objective_function and update_section on the store.
C20_UsesStoredSettings ==
    last.call \in RunOps =>
        /\ sent.dateDebut # NONE => sent.dateDebut = InitStartDate(config)
        /\ sent.dateFin # NONE => sent.dateFin = InitEndDate(config)
        /\ sent.called /\ last.call = "run_calibration_flow" =>
               sent.prefixName =
                   <<"results/calibration/CMAES/">> \o InitObjective(config)
                       \o <<"/">> \o InitObjective(config)

====
